---- MODULE Spec2Model ----
(***************************************************************************)
(* NightOwl Chat (src/main.py): the connection registry, the persistence   *)
(* call and the broadcast loop of the websocket relay.                     *)
(*                                                                         *)
(* Every websocket connection runs one websocket_endpoint coroutine on a   *)
(* single asyncio event loop.  A coroutine runs without interruption from  *)
(* one await to the next, so each action below is the code between two     *)
(* suspension points of one handler.                                       *)
(*                                                                         *)
(* active_connections is a Python dict.  broadcast iterates it live        *)
(* (dict.values()), so the dict is modelled as CPython keeps it: an        *)
(* insertion-ordered entry table in which a deleted entry leaves a hole    *)
(* and a new key is appended, and an iterator that carries the size it     *)
(* saw at creation, its position in the table and the number of entries    *)
(* it still expects.  The first table of a dict has room for five          *)
(* insertions of new keys; MaxConn stays below that, so the table is       *)
(* never rebuilt in the runs explored here.                                *)
(***************************************************************************)
EXTENDS Integers, Sequences, FiniteSets, TLC

\* ---------------------------------------------------------------- bounds
MaxConn == 3
MaxMsgs == 2
MaxCloses == 1

Handles == 1..MaxConn
Ids == <<"ann", "bo", "cy">>
Contents == {"hello"}

\* The client_id a connection may ask for.  Handlers and identities are
\* interchangeable, so connection h draws from two neighbouring names: that
\* keeps both a shared identity and pairwise distinct identities reachable.
IdsOf(h) == {Ids[i] : i \in {j \in 1..Len(Ids) : j = h \/ j + 1 = h}}

NoHandle == 0
NoKey == ""
NoError == ""

VARIABLES
    active_connections, \* ConnectionManager.active_connections: the entry table
    pc,                 \* per handler: where websocket_endpoint is suspended
    cid,                \* per handler: the client_id path parameter
    message,            \* per handler: the local `message` of the loop body
    iter,               \* per handler: the dict iterator of its broadcast loop
    cur,                \* per handler: the connection its send_text is awaiting
    inbox,              \* per connection: the texts its client has received
    history,            \* messages_collection: the inserted documents
    closed,             \* per connection: the transport is closed
    raised,             \* per handler: the exception that ended websocket_endpoint
    clock,              \* the number of datetime.now() readings taken so far
    submitted,          \* history variable: every message in order of receipt,
                        \* with the registry contents at that instant
    joined,             \* history variable: Len(submitted) when the handler registered
    replaced            \* history variable: the connection whose entry the
                        \* handler's registration overwrote

vars == <<active_connections, pc, cid, message, iter, cur, inbox, history,
          closed, raised, clock, submitted, joined, replaced>>

\* ------------------------------------------------------- the dict (CPython)
\* A deleted entry: key and value are cleared, the slot stays in the table.
Hole == [key |-> NoKey, value |-> NoHandle]

\* The indices of the table that hold an entry.
LiveIdx(d) == {i \in 1..Len(d) : d[i].value # NoHandle}

\* len(d): ma_used.
Used(d) == Cardinality(LiveIdx(d))

\* `key in d`.
HasKey(d, k) == \E i \in LiveIdx(d) : d[i].key = k

\* The slot of key k.
IndexOf(d, k) == CHOOSE i \in LiveIdx(d) : d[i].key = k

\* d.get(k)
GetItem(d, k) == IF HasKey(d, k) THEN d[IndexOf(d, k)].value ELSE NoHandle

\* A registry kept as a list of pairs: every assignment adds an entry.
SetItemAppends(d, k, v) == Append(d, [key |-> k, value |-> v])

\* d[k] = v: an existing key keeps its slot, a new key is appended.
SetItem(d, k, v) ==
    IF HasKey(d, k)
    THEN [d EXCEPT ![IndexOf(d, k)].value = v]
    ELSE Append(d, [key |-> k, value |-> v])

\* A removal that forgets the key but leaves the handle in the table.
DelItemKeepsValue(d, k) == [d EXCEPT ![IndexOf(d, k)].key = NoKey]

\* del d[k]
DelItem(d, k) == [d EXCEPT ![IndexOf(d, k)] = Hole]

\* list(d.values())
Values(d) == {d[i].value : i \in LiveIdx(d)}

\* iter(d.values()): remembers the size, starts at the first slot.
NewIter(d) == [used |-> Used(d), pos |-> 1, len |-> Used(d)]

NoIter == [used |-> 0, pos |-> 1, len |-> 0]

\* next(it): "error" is RuntimeError (dictionary changed size / keys changed
\* during iteration), "stop" is StopIteration.
IterNext(d, it) ==
    IF it.used # Used(d)
    THEN [status |-> "error", value |-> NoHandle, it |-> it]
    ELSE LET rest == {i \in LiveIdx(d) : i >= it.pos} IN
         IF rest = {}
         THEN [status |-> "stop", value |-> NoHandle, it |-> it]
         ELSE LET i == CHOOSE j \in rest : \A k \in rest : j <= k IN
              IF it.len = 0
              THEN [status |-> "error", value |-> NoHandle, it |-> it]
              ELSE [status |-> "value", value |-> d[i].value,
                    it |-> [used |-> it.used, pos |-> i + 1, len |-> it.len - 1]]

\* ------------------------------------------------------------- messages
\* Message(client_id=..., content=..., timestamp=str(datetime.now()))
Message(c, data, now) == [client_id |-> c, content |-> data, timestamp |-> ToString(now)]

NoMessage == [client_id |-> NoKey, content |-> "", timestamp |-> ""]

\* message.dict()
Dict(m) == [client_id |-> m.client_id, content |-> m.content, timestamp |-> m.timestamp]

\* json.dumps(message.dict()): the text put on the wire.
JsonDumps(doc) == <<"client_id", doc.client_id, "content", doc.content,
                    "timestamp", doc.timestamp>>

\* JSON.parse(event.data) in the page's onmessage.
JsonParse(text) == [client_id |-> text[2], content |-> text[4], timestamp |-> text[6]]

\* ---------------------------------------------------------------- Init
Init ==
    /\ active_connections = <<>>
    /\ pc = [h \in Handles |-> "idle"]
    /\ cid = [h \in Handles |-> NoKey]
    /\ message = [h \in Handles |-> NoMessage]
    /\ iter = [h \in Handles |-> NoIter]
    /\ cur = [h \in Handles |-> NoHandle]
    /\ inbox = [h \in Handles |-> <<>>]
    /\ history = <<>>
    /\ closed = [h \in Handles |-> FALSE]
    /\ raised = [h \in Handles |-> NoError]
    /\ clock = 0
    /\ submitted = <<>>
    /\ joined = [h \in Handles |-> 0]
    /\ replaced = [h \in Handles |-> NoHandle]

\* ------------------------------------------------- ConnectionManager
\* ConnectionManager.connect, after websocket.accept() has returned.
connect(d, client_id, websocket) == SetItem(d, client_id, websocket)

\* A disconnect that drops the oldest entry instead of client_id's.
disconnectOldest(d, client_id) ==
    IF HasKey(d, client_id)
    THEN [d EXCEPT ![CHOOSE i \in LiveIdx(d) : \A j \in LiveIdx(d) : i <= j] = Hole]
    ELSE d

\* ConnectionManager.disconnect
disconnect(d, client_id) == IF HasKey(d, client_id) THEN DelItem(d, client_id) ELSE d

\* ------------------------------------------------- websocket_endpoint
\* A handler is running (it has registered and has not returned or raised).
Running(h) == pc[h] \in {"recv", "persist", "send"}

\* The handler has ended: by return after WebSocketDisconnect ("done") or by
\* an exception that websocket_endpoint does not catch ("crashed").
Ended(h) == pc[h] \in {"done", "crashed"}

\* The connection can carry a text to its client: the client has not closed
\* it and the server has not closed it at the end of its handler.
Open(h) == ~closed[h] /\ ~Ended(h)

\* The for loop of broadcast asks its iterator for the next connection and
\* either awaits send_text on it, or leaves the loop and goes back to
\* receive_text, or lets the iterator's RuntimeError leave websocket_endpoint
\* (the server then closes the connection).  The locals of a finished loop
\* body are dead: they are cleared.
Advance(h, it) ==
    LET r == IterNext(active_connections, it) IN
    IF r.status = "value"
    THEN /\ iter' = [iter EXCEPT ![h] = r.it]
         /\ cur' = [cur EXCEPT ![h] = r.value]
         /\ pc' = [pc EXCEPT ![h] = "send"]
         /\ UNCHANGED <<message, raised>>
    ELSE /\ iter' = [iter EXCEPT ![h] = NoIter]
         /\ cur' = [cur EXCEPT ![h] = NoHandle]
         /\ message' = [message EXCEPT ![h] = NoMessage]
         /\ pc' = [pc EXCEPT ![h] = IF r.status = "stop" THEN "recv" ELSE "crashed"]
         /\ raised' = [raised EXCEPT ![h] = IF r.status = "error"
                                            THEN "IterationError" ELSE NoError]

\* A client opens /ws/{client_id}: accept, then register.
Connect(h, client_id) ==
    /\ pc[h] = "idle"
    /\ active_connections' = connect(active_connections, client_id, h)
    /\ cid' = [cid EXCEPT ![h] = client_id]
    /\ pc' = [pc EXCEPT ![h] = "recv"]
    /\ joined' = [joined EXCEPT ![h] = Len(submitted)]
    /\ replaced' = [replaced EXCEPT ![h] = GetItem(active_connections, client_id)]
    /\ UNCHANGED <<message, iter, cur, inbox, history, closed, raised, clock,
                   submitted>>

\* A handler that reads its next text while the previous message is still
\* being persisted.
ReceiveEarly(h, data) ==
    /\ pc[h] \in {"recv", "persist"}
    /\ ~closed[h]
    /\ clock < MaxMsgs
    /\ LET m == Message(cid[h], data, clock) IN
        /\ message' = [message EXCEPT ![h] = m]
        /\ submitted' = Append(submitted,
                               [msg |-> m, by |-> h,
                                reg |-> Values(active_connections),
                                dead |-> {x \in Handles : ~Open(x)}])
    /\ clock' = clock + 1
    /\ pc' = [pc EXCEPT ![h] = "persist"]
    /\ UNCHANGED <<active_connections, cid, iter, cur, inbox, history, closed,
                   raised, joined, replaced>>

\* receive_text returns a text: build the Message and await add_to_history.
Receive(h, data) ==
    /\ pc[h] = "recv"
    /\ ~closed[h]
    /\ clock < MaxMsgs
    /\ LET m == Message(cid[h], data, clock) IN
        /\ message' = [message EXCEPT ![h] = m]
        /\ submitted' = Append(submitted,
                               [msg |-> m, by |-> h,
                                reg |-> Values(active_connections),
                                dead |-> {x \in Handles : ~Open(x)}])
    /\ clock' = clock + 1
    /\ pc' = [pc EXCEPT ![h] = "persist"]
    /\ UNCHANGED <<active_connections, cid, iter, cur, inbox, history, closed,
                   raised, joined, replaced>>

\* receive_text raises WebSocketDisconnect: the except clause unregisters
\* client_id and the endpoint returns.
ReceiveDisconnect(h) ==
    /\ pc[h] = "recv"
    /\ closed[h]
    /\ active_connections' = disconnect(active_connections, cid[h])
    /\ pc' = [pc EXCEPT ![h] = "done"]
    /\ raised' = [raised EXCEPT ![h] = "ReceiveDisconnect"]
    /\ UNCHANGED <<cid, message, iter, cur, inbox, history, closed, clock,
                   submitted, joined, replaced>>

\* A relay that starts the broadcast without waiting for insert_one: the
\* document is not in the collection yet.
BroadcastUnpersisted(h) ==
    /\ pc[h] = "persist"
    /\ Advance(h, NewIter(active_connections))
    /\ UNCHANGED <<active_connections, cid, inbox, history, closed, clock,
                   submitted, joined, replaced>>

\* insert_one returns: the document is in the collection, and broadcast
\* starts its loop over active_connections.values().
PersistOk(h) ==
    /\ pc[h] = "persist"
    /\ history' = Append(history, Dict(message[h]))
    /\ Advance(h, NewIter(active_connections))
    /\ UNCHANGED <<active_connections, cid, inbox, closed, clock, submitted,
                   joined, replaced>>

\* insert_one raises: the exception is not a WebSocketDisconnect, so it
\* leaves websocket_endpoint; the server closes the connection.
PersistFail(h) ==
    /\ pc[h] = "persist"
    /\ pc' = [pc EXCEPT ![h] = "crashed"]
    /\ raised' = [raised EXCEPT ![h] = "PersistenceError"]
    /\ message' = [message EXCEPT ![h] = NoMessage]
    /\ UNCHANGED <<active_connections, cid, iter, cur, inbox, history, closed,
                   clock, submitted, joined, replaced>>

\* send_text returns: the client of cur[h] has the text; the loop goes on.
SendOk(h) ==
    /\ pc[h] = "send"
    /\ Open(cur[h])
    /\ inbox' = [inbox EXCEPT ![cur[h]] = Append(@, JsonDumps(Dict(message[h])))]
    /\ Advance(h, iter[h])
    /\ UNCHANGED <<active_connections, cid, history, closed, clock, submitted,
                   joined, replaced>>

\* The exceptions send_text can raise on a closed connection, by version of
\* the websocket library.
SendErrors == {"WebSocketDisconnect", "RuntimeError"}

\* send_text raises on a closed connection.  Nothing in broadcast catches
\* it: a WebSocketDisconnect reaches the except clause of the sender's
\* websocket_endpoint, anything else leaves the endpoint.
SendFail(h, exc) ==
    /\ pc[h] = "send"
    /\ ~Open(cur[h])
    /\ IF exc = "WebSocketDisconnect"
       THEN /\ active_connections' = disconnect(active_connections, cid[h])
            /\ pc' = [pc EXCEPT ![h] = "done"]
            /\ raised' = [raised EXCEPT ![h] = "SendDisconnect"]
       ELSE /\ active_connections' = active_connections
            /\ pc' = [pc EXCEPT ![h] = "crashed"]
            /\ raised' = [raised EXCEPT ![h] = "SendError"]
    /\ message' = [message EXCEPT ![h] = NoMessage]
    /\ iter' = [iter EXCEPT ![h] = NoIter]
    /\ cur' = [cur EXCEPT ![h] = NoHandle]
    /\ UNCHANGED <<cid, inbox, history, closed, clock, submitted, joined,
                   replaced>>

\* The client of a running handler closes its connection (or the network
\* drops it).
ClientClose(h) ==
    /\ Running(h)
    /\ ~closed[h]
    /\ Cardinality({x \in Handles : closed[x]}) < MaxCloses
    /\ closed' = [closed EXCEPT ![h] = TRUE]
    /\ UNCHANGED <<active_connections, pc, cid, message, iter, cur, inbox,
                   history, raised, clock, submitted, joined, replaced>>

Next ==
    \/ \E h \in Handles : \E client_id \in IdsOf(h) : Connect(h, client_id)
    \/ \E h \in Handles, data \in Contents : Receive(h, data)
    \/ \E h \in Handles : ReceiveDisconnect(h)
    \/ \E h \in Handles : PersistOk(h)
    \/ \E h \in Handles : PersistFail(h)
    \/ \E h \in Handles : SendOk(h)
    \/ \E h \in Handles, exc \in SendErrors : SendFail(h, exc)
    \/ \E h \in Handles : ClientClose(h)

Spec == Init /\ [][Next]_vars

\* --------------------------------------------- an unresponsive client
\* The connections whose client has stopped reading without closing: an
\* awaited send_text to them never returns.
Unresponsive == {1}

\* send_text returns, which it does only for a client that reads.
SendOkResponsive(h) == cur[h] \notin Unresponsive /\ SendOk(h)

\* What a handler does by itself once its awaited call can return: the event
\* loop resumes every coroutine whose awaited call has completed.
Resume(h) ==
    \/ PersistOk(h)
    \/ SendOkResponsive(h)
    \/ \E exc \in SendErrors : SendFail(h, exc)

NextStalled ==
    \/ \E h \in Handles : \E client_id \in IdsOf(h) : Connect(h, client_id)
    \/ \E h \in Handles, data \in Contents : Receive(h, data)
    \/ \E h \in Handles : ReceiveDisconnect(h)
    \/ \E h \in Handles : PersistOk(h)
    \/ \E h \in Handles : PersistFail(h)
    \/ \E h \in Handles : SendOkResponsive(h)
    \/ \E h \in Handles, exc \in SendErrors : SendFail(h, exc)
    \/ \E h \in Handles : ClientClose(h)

\* The relay with an unresponsive client, the database and the other clients
\* answering: every other awaited call eventually returns.
StalledSpec ==
    Init /\ [][NextStalled]_vars /\ \A h \in Handles : WF_vars(Resume(h))

TypeOK ==
    /\ pc \in [Handles -> {"idle", "recv", "persist", "send", "done", "crashed"}]
    /\ \A i \in 1..Len(active_connections) :
          active_connections[i].value \in Handles \cup {NoHandle}
    /\ clock \in 0..MaxMsgs
    /\ Len(history) <= clock

\* ------------------------------------------------------------ vocabulary
Msgs == 1..Len(submitted)

\* The text that carries message k.
Wire(k) == JsonDumps(Dict(submitted[k].msg))

Count(seq, x) == Cardinality({i \in 1..Len(seq) : seq[i] = x})

\* The client of connection h has received message k.
Got(h, k) == Count(inbox[h], Wire(k)) > 0

\* The place of message k's first copy in what h's client has received.
Pos(h, k) == CHOOSE i \in 1..Len(inbox[h]) :
                /\ inbox[h][i] = Wire(k)
                /\ \A j \in 1..(i - 1) : inbox[h][j] # Wire(k)

\* The registry maps h's identity to h, and h's handler is running.
Registered(h) == Running(h) /\ GetItem(active_connections, cid[h]) = h

\* The sender's handler is still persisting or broadcasting message k.
InFlight(k) == message[submitted[k].by] = submitted[k].msg

\* The last message connection h submitted (0 if none).
LastOf(h) == LET mine == {k \in Msgs : submitted[k].by = h} IN
             IF mine = {} THEN 0 ELSE CHOOSE k \in mine : \A j \in mine : j <= k

\* The broadcast loop of message k ran to its end.
Completed(k) ==
    LET h == submitted[k].by IN
    /\ ~InFlight(k)
    /\ LastOf(h) = k => raised[h] \in {NoError, "ReceiveDisconnect"}

\* Nothing has failed and nobody has left so far.
NoFaultYet == \A h \in Handles : ~closed[h] /\ raised[h] = NoError

\* No client has closed and no insert_one or send_text has failed: the only
\* exceptions so far are the ones the relay's own loop raises.
NoFaults == \A h \in Handles : ~closed[h] /\ raised[h] \in {NoError, "IterationError"}

\* ---------------------------------------------------------------- claims

\* C1: two connections that are registered before two messages of distinct
\* identities are submitted, and stay registered, receive both messages, and
\* in the same relative order, however the senders' handlers interleave
\* (stated for runs in which nothing fails and nobody leaves).
C1_SameRelativeOrder ==
    \A a, b \in Handles :
      (NoFaultYet /\ Registered(a) /\ Registered(b)) =>
        \A k1, k2 \in Msgs :
          ( /\ submitted[k1].msg.client_id # submitted[k2].msg.client_id
            /\ joined[a] < k1 /\ joined[a] < k2
            /\ joined[b] < k1 /\ joined[b] < k2 ) =>
            /\ (~InFlight(k1) /\ ~InFlight(k2)) =>
                  Got(a, k1) /\ Got(a, k2) /\ Got(b, k1) /\ Got(b, k2)
            /\ (Got(a, k1) /\ Got(a, k2) /\ Got(b, k1) /\ Got(b, k2)) =>
                  ((Pos(a, k1) < Pos(a, k2)) <=> (Pos(b, k1) < Pos(b, k2)))

\* C2: a connection never receives a message that was submitted before the
\* connection registered.
C2_NoDeliveryToLateJoiner ==
    \A h \in Handles : \A k \in Msgs :
      (pc[h] # "idle" /\ k <= joined[h]) => ~Got(h, k)

\* C3: when the registry has lost the entry of another identity while a
\* broadcast was suspended in a send, the broadcast does not raise when it
\* resumes (and so goes on to the entries that remain).
C3_UnregisterDuringBroadcast ==
    [][\A h \in Handles :
          ( /\ pc[h] = "send"
            /\ Registered(h)
            /\ Used(active_connections) < iter[h].used )
             => raised'[h] # "IterationError"]_vars

\* C4: a message of a registered sender whose insert_one failed is still
\* delivered to every connection that was registered when it was submitted
\* and is still registered and open.
C4_FailOpenPersistence ==
    \A h \in Handles :
      ( /\ raised[h] = "PersistenceError"
        /\ h \in submitted[LastOf(h)].reg ) =>
        \A r \in submitted[LastOf(h)].reg :
          (Registered(r) /\ Open(r)) => Got(r, LastOf(h))

\* C5: a message of a registered sender whose broadcast met a failing
\* send_text to another connection is still delivered to every other
\* connection that was registered when it was submitted and is still
\* registered and open.
C5_DeliveryFailureIsolated ==
    \A h \in Handles :
      ( /\ raised[h] \in {"SendError", "SendDisconnect"}
        /\ ~closed[h]
        /\ h \in submitted[LastOf(h)].reg ) =>
        \A r \in submitted[LastOf(h)].reg :
          (Registered(r) /\ Open(r)) => Got(r, LastOf(h))

\* C6: once newer has registered under the identity of older, a message
\* submitted afterwards never reaches older, and when its broadcast has run
\* to its end it has reached newer (as long as newer is the newest
\* connection of the identity and is open).
C6_NewestHandleOnly ==
    \A older, newer \in Handles :
      (pc[newer] # "idle" /\ replaced[newer] = older) =>
        \A k \in Msgs :
          joined[newer] < k =>
            /\ ~Got(older, k)
            /\ ( /\ Completed(k)
                 /\ Running(newer) /\ Open(newer)
                 /\ \A g \in Handles : replaced[g] # newer ) => Got(newer, k)

\* C7: the entry of a running handler stays in the registry until that
\* handler ends or a newer connection takes its identity over.
C7_EntryRemovedOnlyByOwner ==
    \A h \in Handles :
      (Running(h) /\ \A g \in Handles : replaced[g] # h) =>
          GetItem(active_connections, cid[h]) = h

\* C8: no registry entry points at the connection of a handler that has
\* ended.
C8_EndedHandlerUnregistered ==
    \A h \in Handles : Ended(h) => h \notin Values(active_connections)

\* C9: after earlier failures or terminations, a message submitted by a
\* registered connection, persisted, and not disturbed by anything new while
\* it was processed, has reached every other connection that was registered
\* and open when it was submitted.
C9_NoFailureIsFatal ==
    \A k \in Msgs :
      LET s == submitted[k]
          others == Handles \ {s.by}
      IN  ( /\ s.dead # {}
            /\ s.by \in s.reg
            /\ ~InFlight(k)
            /\ Count(history, Dict(s.msg)) > 0
            /\ {x \in others : ~Open(x)} = s.dead \ {s.by}
            /\ Values(active_connections) \ {s.by} = s.reg \ {s.by} ) =>
          \A r \in s.reg \ {s.by} : Open(r) => Got(r, k)

\* C10: with no faults, a message that is no longer being processed has
\* reached every identity registered at its submission exactly once (at the
\* connection that held the identity then and still holds it), with the
\* sender's identity and the submitted content, and the log holds exactly
\* one record of it, equal to the record that was broadcast.
C10_ExactlyOnceNoFaults ==
    NoFaults =>
      \A k \in Msgs :
        LET s == submitted[k] IN
        ~InFlight(k) =>
          /\ \A r \in s.reg :
               (Open(r) /\ Registered(r)) =>
                 /\ Count(inbox[r], Wire(k)) = 1
                 /\ JsonParse(Wire(k)).client_id = cid[s.by]
                 /\ JsonParse(Wire(k)).content = s.msg.content
          /\ Count(history, JsonParse(Wire(k))) = 1

\* C11: while a broadcast is under way with an unresponsive client in the
\* registry, every responsive connection that was registered when the
\* message was submitted eventually receives it (unless it leaves or the
\* broadcast ends first); this holds for every sender's message.
C11_SlowRecipientDoesNotStall ==
    \A k \in 1..MaxMsgs : \A r \in Handles \ Unresponsive :
      (k \in Msgs /\ InFlight(k) /\ r \in submitted[k].reg)
        ~> (k \in Msgs /\ (Got(r, k) \/ ~InFlight(k) \/ ~Registered(r)))

\* The handlers that are between the start of add_to_history and the end
\* of broadcast.
InSection == {h \in Handles : pc[h] \in {"persist", "send"}}

\* C12: at most one submission at a time is inside its persist-and-broadcast
\* section.
C12_SubmissionsSerialized == Cardinality(InSection) <= 1

\* Handler h takes a step.
Steps(h) == <<pc[h], cur[h], iter[h], raised[h]>>' # <<pc[h], cur[h], iter[h], raised[h]>>

\* C13: when the send_text a registered sender's broadcast is awaiting on
\* another connection fails, the registry is
\* left as it is (the failed recipient's entry and the sender's entry
\* included) and the sender's handler stays in its loop.
C13_DeliveryFailureLeavesRegistryAndSender ==
    [][\A h \in Handles :
          ( /\ pc[h] = "send" /\ Registered(h)
            /\ ~Open(cur[h]) /\ cur[h] # h
            /\ Steps(h) ) =>
             /\ active_connections' = active_connections
             /\ pc'[h] \in {"send", "recv"}]_vars

\* Every client_id a connection may ask for.
Names == {Ids[i] : i \in 1..Len(Ids)}

\* No two entries of the registry have the same identity.
UniqueKeys ==
    \A i, j \in LiveIdx(active_connections) :
       active_connections[i].key = active_connections[j].key => i = j

\* Connection h registers in this step.
Registers(h) == pc[h] = "idle" /\ pc'[h] = "recv"

\* C14: the registry never holds two entries of one identity; a registration
\* makes the identity map to the new connection, raises nothing, leaves every
\* other identity's entry as it was, and adds no entry when the identity was
\* already present.
C14_OneEntryPerIdentity ==
    /\ []UniqueKeys
    /\ [][\A h \in Handles :
            Registers(h) =>
              /\ GetItem(active_connections', cid'[h]) = h
              /\ raised' = raised
              /\ \A n \in Names \ {cid'[h]} :
                    GetItem(active_connections', n) = GetItem(active_connections, n)
              /\ HasKey(active_connections, cid'[h]) =>
                    Used(active_connections') = Used(active_connections)]_vars

\* A connection has taken over an identity that was present, next to an
\* entry of another identity.
C14_Witness ==
    \E h \in Handles :
       /\ replaced[h] # NoHandle
       /\ GetItem(active_connections, cid[h]) = h
       /\ Used(active_connections) >= 2

\* The except clause of handler h runs manager.disconnect(client_id) in this
\* step.
Unregisters(h) ==
    raised[h] = NoError /\ raised'[h] \in {"ReceiveDisconnect", "SendDisconnect"}

\* C15: a call of disconnect leaves the registry without an entry of the
\* given identity, changes nothing when there was none, raises nothing,
\* leaves every other identity's entry as it was, and a second call with the
\* same identity changes nothing more.
C15_UnregisterIdempotent ==
    [][\A h \in Handles :
          Unregisters(h) =>
            /\ ~HasKey(active_connections', cid[h])
            /\ ~HasKey(active_connections, cid[h]) =>
                  active_connections' = active_connections
            /\ \A n \in Names \ {cid[h]} :
                  GetItem(active_connections', n) = GetItem(active_connections, n)
            /\ disconnect(active_connections', cid[h]) = active_connections'
            /\ pc'[h] = "done"]_vars

\* Two handlers of one identity have both run disconnect (the second call
\* found no entry) while another identity was registered.
C15_Witness ==
    \E h, g \in Handles :
       /\ h # g /\ cid[h] = cid[g]
       /\ raised[h] \in {"ReceiveDisconnect", "SendDisconnect"}
       /\ raised[g] \in {"ReceiveDisconnect", "SendDisconnect"}
       /\ Used(active_connections) >= 1

\* What the rest of an iteration yields when it runs to its end over d:
\* the handles still to be attempted, and whether it ends in StopIteration.
RECURSIVE Rest(_, _)
Rest(d, it) ==
    LET r == IterNext(d, it) IN
    IF r.status = "value"
    THEN LET more == Rest(d, r.it) IN
         [targets |-> {r.value} \cup more.targets, ok |-> more.ok]
    ELSE [targets |-> {}, ok |-> r.status = "stop"]

\* Handler h stays suspended inside one send of its broadcast.
Suspended(h) ==
    /\ pc[h] = "send" /\ pc'[h] = "send"
    /\ iter'[h] = iter[h] /\ cur'[h] = cur[h]

\* C16: a broadcast iterates a snapshot: while it is suspended in a send,
\* no registration, replacement or removal by another handler changes the
\* handles it will still attempt, nor makes its iteration fail.
C16_BroadcastIteratesSnapshot ==
    [][\A h \in Handles :
          Suspended(h) =>
            Rest(active_connections', iter[h]) = Rest(active_connections, iter[h])]_vars

\* The document of message k is in the collection.
Persisted(k) == Count(history, Dict(submitted[k].msg)) >= 1

\* C17: a message that any client has received is in the collection, and so
\* is the message of every broadcast that has started.
C17_PersistBeforeDeliver ==
    /\ \A k \in Msgs : (\E r \in Handles : Got(r, k)) => Persisted(k)
    /\ \A h \in Handles : pc[h] = "send" => Count(history, Dict(message[h])) >= 1

\* A client has received a message whose broadcast is still running.
C17_Witness ==
    \E k \in Msgs : \E r \in Handles :
       Got(r, k) /\ InFlight(k) /\ pc[submitted[k].by] = "send"

\* The place of message k's document in the collection.
LogPos(k) == CHOOSE i \in 1..Len(history) : history[i] = Dict(submitted[k].msg)

\* C18: of two messages submitted over one connection, the earlier one was
\* persisted and its broadcast had ended when the later one was read; the
\* collection holds them in the order sent, and every client that has
\* received both received them in the order sent.
C18_PerSenderFifo ==
    \A k1, k2 \in Msgs :
       (k1 < k2 /\ submitted[k1].by = submitted[k2].by) =>
          /\ Persisted(k1) /\ ~InFlight(k1)
          /\ Persisted(k2) => LogPos(k1) < LogPos(k2)
          /\ \A r \in Handles :
                Got(r, k2) => \A i \in 1..Len(inbox[r]) :
                                 inbox[r][i] = Wire(k1) => i < Pos(r, k2)

\* One connection has sent two messages, both are in the collection, and
\* the client of another connection has received both.
C18_Witness ==
    \E k1, k2 \in Msgs :
       /\ k1 < k2 /\ submitted[k1].by = submitted[k2].by
       /\ Persisted(k1) /\ Persisted(k2)
       /\ \E r \in Handles \ {submitted[k1].by} : Got(r, k1) /\ Got(r, k2)

\* Connection x has registered and its identity has no entry now: the
\* identity was unregistered by disconnect and has not registered again.
Unregistered(x) == pc[x] # "idle" /\ ~HasKey(active_connections, cid[x])

\* C19: while the identity of a connection is unregistered, no broadcast
\* begins a delivery to that connection.
C19_NoDeliveryAfterUnregister ==
    [][\A x \in Handles :
          Unregistered(x) =>
             \A h \in Handles : (pc'[h] = "send" /\ cur'[h] = x) =>
                                   (pc[h] = "send" /\ cur[h] = x /\ iter'[h] = iter[h])]_vars

\* The handler of x, the only connection of its identity, has run
\* disconnect, and a message submitted afterwards has been delivered to
\* another client and not to x.
C19_Witness ==
    \E x \in Handles : \E k \in Msgs :
       /\ Unregistered(x)
       /\ raised[x] \in {"ReceiveDisconnect", "SendDisconnect"}
       /\ \A g \in Handles \ {x} : cid[g] # cid[x]
       /\ joined[x] < k /\ x \notin submitted[k].reg
       /\ ~Got(x, k)
       /\ \E r \in Handles \ {x} : Got(r, k)
====
